---- MODULE Spec2Model ----
(***************************************************************************)
(* playvideo-js: webhook signature verification (src/webhooks.ts) and the  *)
(* progress stream of a video (watchProgress, src/resources/videos.ts).    *)
(*                                                                         *)
(* A JavaScript string is a sequence of one-character strings.  A number   *)
(* is [nan |-> BOOLEAN, val |-> Int]; only integers are modelled.  Times   *)
(* are milliseconds, as Date.now() gives them; tolerances are seconds.     *)
(***************************************************************************)
EXTENDS Integers, Sequences, FiniteSets, TLC

VARIABLES entry, payload, signature, timestamp, secret, tolerance, clock,
          pc, ts, now, expectedSig, payloadStr, signedPayload, computedSig,
          digests, result, event, parses, steps

vars == <<entry, payload, signature, timestamp, secret, tolerance, clock,
          pc, ts, now, expectedSig, payloadStr, signedPayload, computedSig,
          digests, result, event, parses, steps>>

\* watchProgress: the HTTP exchange, the generator's locals and position, and
\* what its consumer has seen
VARIABLES response, stream, signal, sent, pending, buffer, lines, gen, locked,
          requests, reads, yielded, answer, outcome, thrown, late

svars == <<response, stream, signal, sent, pending, buffer, lines, gen, locked,
           requests, reads, yielded, answer, outcome, thrown, late>>

\* HttpClient.request and HttpClient.upload: one call, its abort timer and
\* controller, the response, and how the call settled
VARIABLES method, timeout, file, chunks, onProgress, hresponse, hpc, timer, aborted,
          elapsed, settled

hvars == <<method, timeout, file, chunks, onProgress, hresponse, hpc, timer, aborted,
           elapsed, settled>>

allvars == <<vars, svars, hvars>>

----------------------------------------------------------------------------
(* Strings and numbers of the platform                                     *)

\* String.prototype.charCodeAt for the characters the model uses.
charCodeAt ==
    (" " :> 32) @@ ("\"" :> 34) @@ ("+" :> 43) @@ ("," :> 44) @@ ("-" :> 45) @@ ("." :> 46) @@
    ("0" :> 48) @@ ("1" :> 49) @@ ("2" :> 50) @@ ("3" :> 51) @@ ("4" :> 52) @@
    ("5" :> 53) @@ ("6" :> 54) @@ ("7" :> 55) @@ ("8" :> 56) @@ ("9" :> 57) @@
    (":" :> 58) @@ ("=" :> 61) @@ ("A" :> 65) @@ ("N" :> 78) @@
    ("a" :> 97) @@ ("b" :> 98) @@ ("c" :> 99) @@ ("d" :> 100) @@ ("e" :> 101) @@
    ("f" :> 102) @@ ("h" :> 104) @@ ("i" :> 105) @@ ("m" :> 109) @@ ("n" :> 110) @@
    ("s" :> 115) @@ ("t" :> 116) @@ ("v" :> 118) @@ ("w" :> 119) @@ ("x" :> 120) @@
    ("y" :> 121) @@ ("{" :> 123) @@ ("}" :> 125)

Digits == <<"0", "1", "2", "3", "4", "5", "6", "7", "8", "9">>

IsDigit(c) == \E i \in 1..10 : Digits[i] = c

DigitValue(c) == (CHOOSE i \in 1..10 : Digits[i] = c) - 1

NaN == [nan |-> TRUE, val |-> 0]

Num(n) == [nan |-> FALSE, val |-> n]

Abs(n) == IF n < 0 THEN -n ELSE n

RECURSIVE BitXor(_, _)
\* a ^ b on non-negative integers
BitXor(a, b) ==
    IF a = 0 /\ b = 0 THEN 0
    ELSE (IF (a % 2) # (b % 2) THEN 1 ELSE 0) + 2 * BitXor(a \div 2, b \div 2)

RECURSIVE BitOr(_, _)
\* a | b on non-negative integers
BitOr(a, b) ==
    IF a = 0 /\ b = 0 THEN 0
    ELSE (IF (a % 2) = 1 \/ (b % 2) = 1 THEN 1 ELSE 0) + 2 * BitOr(a \div 2, b \div 2)

RECURSIVE DigitsValue(_, _)
\* the value of the longest prefix of decimal digits of s, after acc
DigitsValue(s, acc) ==
    IF s = <<>> \/ ~IsDigit(Head(s)) THEN acc
    ELSE DigitsValue(Tail(s), 10 * acc + DigitValue(Head(s)))

RECURSIVE SkipWhitespace(_)
SkipWhitespace(s) ==
    IF s # <<>> /\ Head(s) = " " THEN SkipWhitespace(Tail(s)) ELSE s

\* parseInt(s, 10): leading white space is skipped, one sign is taken, then the
\* longest run of digits is read; what follows the digits is ignored, and a
\* string with no digit at that place gives NaN.
parseInt(s) ==
    LET t    == SkipWhitespace(s)
        neg  == t # <<>> /\ Head(t) = "-"
        sign == t # <<>> /\ (Head(t) = "-" \/ Head(t) = "+")
        body == IF sign THEN Tail(t) ELSE t
    IN  IF body = <<>> \/ ~IsDigit(Head(body)) THEN NaN
        ELSE Num((IF neg THEN -1 ELSE 1) * DigitsValue(body, 0))

RECURSIVE NatToString(_)
NatToString(n) ==
    IF n < 10 THEN <<Digits[n + 1]>>
    ELSE NatToString(n \div 10) \o <<Digits[(n % 10) + 1]>>

\* Number::toString of `${n}`, for an integer below 10^21
NumberToString(n) ==
    IF n.nan THEN <<"N", "a", "N">>
    ELSE IF n.val < 0 THEN <<"-">> \o NatToString(-n.val)
    ELSE NatToString(n.val)

RECURSIVE split(_, _)
\* String.prototype.split(sep) for a one-character separator
split(s, sep) ==
    IF \A i \in 1..Len(s) : s[i] # sep THEN <<s>>
    ELSE LET k == CHOOSE i \in 1..Len(s) : s[i] = sep /\ \A j \in 1..(i - 1) : s[j] # sep
         IN  <<SubSeq(s, 1, k - 1)>> \o split(SubSeq(s, k + 1, Len(s)), sep)

----------------------------------------------------------------------------
(* JSON: the payload values of the model and their serialisation            *)

\* a WebhookPayload value: { event, data: { id } }
JsonObject(ev, id) == [event |-> ev, data |-> [id |-> id]]

EventNames == {<<"x">>, <<"y">>}

DataIds == {<<"v">>, <<"w">>}

JsonObjects == {JsonObject(ev, id) : ev \in EventNames, id \in DataIds}

Quote(text) == <<"\"">> \o text \o <<"\"">>

\* JSON.stringify of a payload object: its own properties in insertion order,
\* no white space.
JSONstringify(obj) ==
    <<"{">> \o Quote(<<"e", "v", "e", "n", "t">>) \o <<":">> \o Quote(obj.event)
      \o <<",">> \o Quote(<<"d", "a", "t", "a">>) \o <<":">>
      \o <<"{">> \o Quote(<<"i", "d">>) \o <<":">> \o Quote(obj.data.id) \o <<"}">>
      \o <<"}">>

\* JSON.parse on the texts of the model: a text that is the serialisation of a
\* payload object decodes to that object, every other text of the model is
\* malformed (SyntaxError).
JSONparse(text) ==
    IF \E o \in JsonObjects : JSONstringify(o) = text
    THEN [ok |-> TRUE, value |-> CHOOSE o \in JsonObjects : JSONstringify(o) = text]
    ELSE [ok |-> FALSE, value |-> JsonObject(<<>>, <<>>)]

\* payload: string | object.  An object is a payload object or one that
\* JSON.stringify cannot serialise (a cyclic structure: TypeError).
StringPayload(text) == [kind |-> "string", str |-> text, obj |-> JsonObject(<<>>, <<>>)]

ObjectPayload(o) == [kind |-> "object", str |-> <<>>, obj |-> o]

CyclicPayload == [kind |-> "cyclic", str |-> <<>>, obj |-> JsonObject(<<>>, <<>>)]

\* timestamp: string | number
StringTimestamp(text) == [kind |-> "string", str |-> text, num |-> NaN]

NumberTimestamp(n) == [kind |-> "number", str |-> <<>>, num |-> n]

----------------------------------------------------------------------------
(* computeHmacSha256 and secureCompare                                      *)

HexDigits == <<"0", "1", "2", "3", "4", "5", "6", "7", "8", "9",
               "a", "b", "c", "d", "e", "f">>

\* b.toString(16).padStart(2, "0") for a byte
ByteToHex(b) == <<HexDigits[(b \div 16) + 1], HexDigits[(b % 16) + 1]>>

RECURSIVE DigestFold(_, _)
DigestFold(h, bytes) ==
    IF bytes = <<>> THEN h
    ELSE DigestFold((h * 257 + charCodeAt[Head(bytes)] + 1) % 65521, Tail(bytes))

\* crypto.subtle.sign("HMAC", key, message): the platform's keyed digest, here
\* a keyed polynomial digest of two bytes.  The key is absorbed first and
\* closed by its length, then the message; one changed byte of the key or of
\* the message changes the digest, as it does (up to collisions) for SHA-256.
HmacBytes(keyData, messageData) ==
    LET k == DigestFold(7, keyData)
        h == DigestFold((k * 257 + Len(keyData)) % 65521, messageData)
    IN  <<h \div 256, h % 256>>

\* computeHmacSha256(message, secret): the digest rendered as lowercase hex,
\* two digits per byte, joined without separator
computeHmacSha256(message, secretKey) ==
    LET hashArray == HmacBytes(secretKey, message)
    IN  ByteToHex(hashArray[1]) \o ByteToHex(hashArray[2])

RECURSIVE CompareLoop(_, _, _, _)
\* the loop of secureCompare from index i with accumulator acc
CompareLoop(a, b, i, acc) ==
    IF i > Len(a) THEN acc
    ELSE CompareLoop(a, b, i + 1,
                     BitOr(acc, BitXor(charCodeAt[a[i]], charCodeAt[b[i]])))

RECURSIVE LoopSteps_Break(_, _, _)
\* a loop that is left at the first pair of characters that differ
LoopSteps_Break(a, b, i) ==
    IF i > Len(a) THEN 0
    ELSE IF a[i] # b[i] THEN 1
    ELSE 1 + LoopSteps_Break(a, b, i + 1)

RECURSIVE LoopSteps(_, _, _)
\* the number of times the body of the loop of secureCompare runs from index i
LoopSteps(a, b, i) ==
    IF i > Len(a) THEN 0
    ELSE 1 + LoopSteps(a, b, i + 1)

\* the compare steps of one call of secureCompare
CompareSteps(a, b) ==
    IF Len(a) # Len(b) THEN 0
    ELSE LoopSteps(a, b, 1)

\* the loop bound off by one: the last character is not compared
secureCompare_SkipsLast(a, b) ==
    IF Len(a) # Len(b) THEN FALSE
    ELSE CompareLoop(SubSeq(a, 1, Len(a) - 1), SubSeq(b, 1, Len(b) - 1), 1, 0) = 0

secureCompare(a, b) ==
    IF Len(a) # Len(b) THEN FALSE
    ELSE CompareLoop(a, b, 1, 0) = 0

----------------------------------------------------------------------------
(* verifyWebhookSignature: its checks, one operator per check               *)

Missing == "Missing required parameters for signature verification"

InvalidTimestamp == "Invalid timestamp"

TooOld == "Webhook timestamp too old"

InvalidFormat == "Invalid signature format"

Mismatch == "Signature mismatch"

\* the messages of the WebhookSignatureError the function throws
WebhookSignatureErrors == {Missing, InvalidTimestamp, TooOld, InvalidFormat, Mismatch}

\* !timestamp: the empty string, the number 0 and NaN are falsy
FalsyTimestamp(t) ==
    IF t.kind = "string" THEN t.str = <<>>
    ELSE t.num.nan \/ t.num.val = 0

\* !signature || !timestamp || !secret
MissingParameters(sig, t, sec) == sig = <<>> \/ FalsyTimestamp(t) \/ sec = <<>>

\* typeof timestamp === "string" ? parseInt(timestamp, 10) : timestamp
ParseTimestamp(t) == IF t.kind = "string" THEN parseInt(t.str) ELSE t.num

isNaN(n) == n.nan

\* the clock taken in seconds: Math.abs(now / 1000 - ts)
OutsideTolerance_ClockInSeconds(nowMs, tsNum, tol) ==
    Abs((nowMs \div 1000) - tsNum.val) > tol

\* the comparison turned round: age < tolerance
OutsideTolerance_Reversed(nowMs, tsNum, tol) == Abs(nowMs - tsNum.val) < tol * 1000

\* the window checked on one side only: now - ts, without Math.abs
OutsideTolerance_OneSided(nowMs, tsNum, tol) == nowMs - tsNum.val > tol * 1000

\* age > tolerance, where age = Math.abs(now - ts) / 1000: the division is
\* exact in the code, so the comparison is made on milliseconds.
OutsideTolerance(nowMs, tsNum, tol) == Abs(nowMs - tsNum.val) > tol * 1000

sha256 == <<"s", "h", "a", "2", "5", "6">>

\* the check of the scheme token alone, without the count of the parts
BadSignatureFormat_SchemeOnly(sig) == split(sig, "=")[1] # sha256

\* sigParts.length !== 2 || sigParts[0] !== "sha256"
BadSignatureFormat(sig) ==
    LET sigParts == split(sig, "=")
    IN  Len(sigParts) # 2 \/ sigParts[1] # sha256

\* sigParts[1]
ExpectedSig(sig) == split(sig, "=")[2]

\* typeof payload === "string" ? payload : JSON.stringify(payload)
PayloadString(p) == IF p.kind = "string" THEN p.str ELSE JSONstringify(p.obj)

\* `${ts}.${payloadStr}`
SignedPayload(tsNum, pStr) == NumberToString(tsNum) \o <<".">> \o pStr

\* The outcome of one call as a function of its arguments and of the clock:
\* "true", the message of the WebhookSignatureError thrown, or "TypeError"
\* when JSON.stringify throws on the payload.
verifyWebhookSignature(p, sig, t, sec, tol, nowMs) ==
    IF MissingParameters(sig, t, sec) THEN Missing
    ELSE IF isNaN(ParseTimestamp(t)) THEN InvalidTimestamp
    ELSE IF OutsideTolerance(nowMs, ParseTimestamp(t), tol) THEN TooOld
    ELSE IF BadSignatureFormat(sig) THEN InvalidFormat
    ELSE IF p.kind = "cyclic" THEN "TypeError"
    ELSE IF ~secureCompare(ExpectedSig(sig),
                           computeHmacSha256(SignedPayload(ParseTimestamp(t), PayloadString(p)), sec))
         THEN Mismatch
    ELSE "true"

----------------------------------------------------------------------------
(* The two programs of the model run apart: while one is checked the       *)
(* variables of the other keep these values                                *)

\* no generator of watchProgress exists
NoOutcome ==
    [kind |-> "none", via |-> "", name |-> "", message |-> <<>>, code |-> <<>>,
     statusCode |-> <<>>]

\* a call of HttpClient that has not settled
Unsettled ==
    [kind |-> "pending", via |-> "", name |-> "", message |-> <<>>, code |-> <<>>,
     statusCode |-> [set |-> FALSE, val |-> 0], requestId |-> <<>>, param |-> <<>>]

\* no call of HttpClient is under way
NoRequest ==
    /\ method = "none"
    /\ timeout = 0
    /\ file = "none"
    /\ chunks = 0
    /\ onProgress = "none"
    /\ hresponse = [status |-> 0, ok |-> FALSE, requestId |-> <<>>, isJson |-> FALSE,
                    json |-> [error |-> <<>>, message |-> <<>>, code |-> <<>>, param |-> <<>>]]
    /\ hpc = "none"
    /\ timer = "none"
    /\ aborted = FALSE
    /\ elapsed = FALSE
    /\ settled = Unsettled

NoStream ==
    /\ response = [status |-> 0, ok |-> FALSE, body |-> "null",
                   json |-> [error |-> <<>>, code |-> <<>>], isJson |-> FALSE]
    /\ stream = <<>>
    /\ signal = FALSE
    /\ sent = 0
    /\ pending = <<>>
    /\ buffer = <<>>
    /\ lines = <<>>
    /\ gen = "none"
    /\ locked = FALSE
    /\ requests = 0
    /\ reads = 0
    /\ yielded = <<>>
    /\ answer = "none"
    /\ outcome = NoOutcome
    /\ thrown = FALSE
    /\ late = 0

----------------------------------------------------------------------------
(* The calls the model makes                                                *)

\* tolerance: number = 300
DefaultTolerance == 300

\* milliseconds past the replay boundary that the timestamps reach
MaxSlack == 1

\* Date.now() at the call
Clocks == {1000, 400000}

Tolerances == {0, 1, DefaultTolerance}

\* numeric timestamps: zero, the clock in seconds, and the clock moved back
\* and forth to each replay boundary and past it
NumberTimestamps ==
    {0} \cup {c \div 1000 : c \in Clocks}
        \cup {c + sgn * (tol * 1000 + e) :
                c \in Clocks, sgn \in {-1, 1}, tol \in Tolerances, e \in 0..MaxSlack}

\* header values: decimal strings, and strings parseInt reads a number from
\* though they are not its decimal form
StringTimestamps ==
    {NumberToString(Num(n)) :
        n \in Clocks \cup {c \div 1000 : c \in Clocks}
                     \cup {c + sgn * (DefaultTolerance * 1000 + MaxSlack) :
                             c \in Clocks, sgn \in {-1, 1}}}
      \cup {<<"0">> \o NumberToString(Num(c)) : c \in Clocks}
      \cup {NumberToString(Num(c)) \o <<"a">> : c \in Clocks}
      \cup {<<" ">> \o NumberToString(Num(c)) : c \in Clocks}
      \cup {<<>>, <<"0">>, <<"n", "a", "n">>}

Timestamps ==
    {NumberTimestamp(Num(n)) : n \in NumberTimestamps}
      \cup {NumberTimestamp(NaN)}
      \cup {StringTimestamp(text) : text \in StringTimestamps}

Secrets == {<<>>, <<"w", "s">>, <<"w", "t">>}

Payloads ==
    {StringPayload(JSONstringify(JsonObject(<<"x">>, <<"v">>))),
     StringPayload(JSONstringify(JsonObject(<<"y">>, <<"v">>))),
     StringPayload(<<"{">>),
     ObjectPayload(JsonObject(<<"x">>, <<"v">>)),
     ObjectPayload(JsonObject(<<"x">>, <<"w">>)),
     CyclicPayload}

Scheme(hex) == sha256 \o <<"=">> \o hex

\* the text a signer that signs the header value as sent would sign
HeaderText(t) == IF t.kind = "string" THEN t.str ELSE NumberToString(t.num)

\* the hex digest with its last digit replaced
Tampered(hex) ==
    SubSeq(hex, 1, Len(hex) - 1) \o <<IF hex[Len(hex)] = "0" THEN "1" ELSE "0">>

\* The signature headers tried with a call: the digest of the text the code
\* signs, the digest of the header text as sent, each under the call's secret;
\* the former with a digit changed, under another secret, and in upper case
\* where it has a letter; and headers that are not of the form sha256=<hex>.
Signatures(p, t, sec) ==
    LET pStr   == IF p.kind = "cyclic" THEN <<>> ELSE PayloadString(p)
        tsNum  == IF isNaN(ParseTimestamp(t)) THEN Num(0) ELSE ParseTimestamp(t)
        good   == computeHmacSha256(SignedPayload(tsNum, pStr), sec)
        asSent == computeHmacSha256(HeaderText(t) \o <<".">> \o pStr, sec)
    IN  {Scheme(good), Scheme(asSent), Scheme(Tampered(good)),
         Scheme(computeHmacSha256(SignedPayload(tsNum, pStr), <<"w", "t">>)),
         Scheme(<<>>), <<>>, sha256 \o good,
         <<"m", "d", "5">> \o <<"=">> \o good,
         Scheme(good) \o <<"=">>}

NoEvent == [status |-> "none", error |-> "", value |-> JsonObject(<<>>, <<>>)]

Init ==
    /\ entry \in {"verifyWebhookSignature", "constructEvent"}
    /\ payload \in Payloads
    /\ timestamp \in Timestamps
    /\ secret \in Secrets
    /\ signature \in Signatures(payload, timestamp, secret)
    /\ tolerance \in (IF entry = "constructEvent" THEN {DefaultTolerance} ELSE Tolerances)
    /\ clock \in Clocks
    /\ pc = "required"
    /\ ts = NaN
    /\ now = 0
    /\ expectedSig = <<>>
    /\ payloadStr = <<>>
    /\ signedPayload = <<>>
    /\ computedSig = <<>>
    /\ digests = 0
    /\ result = "pending"
    /\ event = NoEvent
    /\ parses = 0
    /\ steps = 0
    /\ NoStream
    /\ NoRequest

\* no call of the webhook functions is under way
NoCall ==
    /\ entry = "none"
    /\ payload = StringPayload(<<>>)
    /\ timestamp = NumberTimestamp(NaN)
    /\ secret = <<>>
    /\ signature = <<>>
    /\ tolerance = DefaultTolerance
    /\ clock = 0
    /\ pc = "none"
    /\ ts = NaN
    /\ now = 0
    /\ expectedSig = <<>>
    /\ payloadStr = <<>>
    /\ signedPayload = <<>>
    /\ computedSig = <<>>
    /\ digests = 0
    /\ result = "none"
    /\ event = NoEvent
    /\ parses = 0
    /\ steps = 0

inputs == <<entry, payload, signature, timestamp, secret, tolerance, clock>>

\* the verification not awaited: its rejection does not stop constructEvent
Throw_NotAwaited(message) ==
    /\ result' = message
    /\ pc' = IF entry = "constructEvent" THEN "parse" ELSE "done"
    /\ UNCHANGED event

\* throw new WebhookSignatureError(message), or another error: the call
\* rejects, and constructEvent, awaiting it, rejects with the same error
Throw(message) ==
    /\ result' = message
    /\ pc' = "done"
    /\ event' = IF entry = "constructEvent"
                THEN [status |-> "threw", error |-> message, value |-> NoEvent.value]
                ELSE event

\* the signature format checked before the presence of the parameters
CheckRequired_FormatFirst ==
    /\ pc = "required"
    /\ IF BadSignatureFormat(signature)
       THEN Throw(InvalidFormat)
       ELSE IF MissingParameters(signature, timestamp, secret)
       THEN Throw(Missing)
       ELSE pc' = "timestamp" /\ UNCHANGED <<result, event>>
    /\ UNCHANGED <<inputs, ts, now, expectedSig, payloadStr, signedPayload,
                   computedSig, digests>>
    /\ UNCHANGED <<parses, steps, svars, hvars>>

\* if (!signature || !timestamp || !secret) throw
CheckRequired ==
    /\ pc = "required"
    /\ IF MissingParameters(signature, timestamp, secret)
       THEN Throw(Missing)
       ELSE pc' = "timestamp" /\ UNCHANGED <<result, event>>
    /\ UNCHANGED <<inputs, ts, now, expectedSig, payloadStr, signedPayload,
                   computedSig, digests>>
    /\ UNCHANGED <<parses, steps, svars, hvars>>

\* const ts = ...; if (isNaN(ts)) throw
CheckTimestamp ==
    /\ pc = "timestamp"
    /\ ts' = ParseTimestamp(timestamp)
    /\ IF isNaN(ParseTimestamp(timestamp))
       THEN Throw(InvalidTimestamp)
       ELSE pc' = "tolerance" /\ UNCHANGED <<result, event>>
    /\ UNCHANGED <<inputs, now, expectedSig, payloadStr, signedPayload,
                   computedSig, digests>>
    /\ UNCHANGED <<parses, steps, svars, hvars>>

\* const now = Date.now(); if (age > tolerance) throw
CheckTolerance ==
    /\ pc = "tolerance"
    /\ now' = clock
    /\ IF OutsideTolerance(clock, ts, tolerance)
       THEN Throw(TooOld)
       ELSE pc' = "format" /\ UNCHANGED <<result, event>>
    /\ UNCHANGED <<inputs, ts, expectedSig, payloadStr, signedPayload,
                   computedSig, digests>>
    /\ UNCHANGED <<parses, steps, svars, hvars>>

\* const sigParts = signature.split("="); if (...) throw; expectedSig = sigParts[1]
ExtractSignature ==
    /\ pc = "format"
    /\ IF BadSignatureFormat(signature)
       THEN Throw(InvalidFormat) /\ UNCHANGED expectedSig
       ELSE /\ expectedSig' = ExpectedSig(signature)
            /\ pc' = "payload"
            /\ UNCHANGED <<result, event>>
    /\ UNCHANGED <<inputs, ts, now, payloadStr, signedPayload, computedSig, digests>>
    /\ UNCHANGED <<parses, steps, svars, hvars>>

\* const payloadStr = ...: JSON.stringify throws a TypeError on a cyclic object
PreparePayload ==
    /\ pc = "payload"
    /\ IF payload.kind = "cyclic"
       THEN Throw("TypeError") /\ UNCHANGED payloadStr
       ELSE /\ payloadStr' = PayloadString(payload)
            /\ pc' = "hmac"
            /\ UNCHANGED <<result, event>>
    /\ UNCHANGED <<inputs, ts, now, expectedSig, signedPayload, computedSig, digests>>
    /\ UNCHANGED <<parses, steps, svars, hvars>>

\* const signedPayload = ...; const computedSig = await computeHmacSha256(...)
ComputeSignature ==
    /\ pc = "hmac"
    /\ signedPayload' = SignedPayload(ts, payloadStr)
    /\ computedSig' = computeHmacSha256(SignedPayload(ts, payloadStr), secret)
    /\ digests' = digests + 1
    /\ pc' = "compare"
    /\ UNCHANGED <<inputs, ts, now, expectedSig, payloadStr, result, event>>
    /\ UNCHANGED <<parses, steps, svars, hvars>>

\* a mismatch reported by the return value instead of an error
CompareSignature_ReturnsFalse ==
    /\ pc = "compare"
    /\ result' = IF secureCompare(expectedSig, computedSig) THEN "true" ELSE "false"
    /\ pc' = IF entry = "constructEvent" THEN "parse" ELSE "done"
    /\ UNCHANGED <<inputs, ts, now, expectedSig, payloadStr, signedPayload,
                   computedSig, digests, event>>
    /\ steps' = CompareSteps(expectedSig, computedSig)
    /\ UNCHANGED <<parses, svars, hvars>>

\* if (!secureCompare(expectedSig, computedSig)) throw; return true
CompareSignature ==
    /\ pc = "compare"
    /\ IF ~secureCompare(expectedSig, computedSig)
       THEN Throw(Mismatch)
       ELSE /\ result' = "true"
            /\ pc' = IF entry = "constructEvent" THEN "parse" ELSE "done"
            /\ UNCHANGED event
    /\ UNCHANGED <<inputs, ts, now, expectedSig, payloadStr, signedPayload,
                   computedSig, digests>>
    /\ steps' = CompareSteps(expectedSig, computedSig)
    /\ UNCHANGED <<parses, svars, hvars>>

\* JSON.parse applied to every payload, an object included
ParsedPayload_AlwaysParses(p) == JSONparse(p.str)

\* const parsed = typeof payload === "string" ? JSON.parse(payload) : payload
ParsedPayload(p) ==
    IF p.kind = "string" THEN JSONparse(p.str) ELSE [ok |-> TRUE, value |-> p.obj]

\* constructEvent after the awaited verification: parse and return
ConstructEvent ==
    /\ pc = "parse"
    /\ event' = IF ParsedPayload(payload).ok
                THEN [status |-> "returned", error |-> "",
                      value |-> ParsedPayload(payload).value]
                ELSE [status |-> "threw", error |-> "SyntaxError", value |-> NoEvent.value]
    /\ pc' = "done"
    /\ UNCHANGED <<inputs, ts, now, expectedSig, payloadStr, signedPayload,
                   computedSig, digests, result>>
    /\ parses' = parses + 1
    /\ UNCHANGED <<steps, svars, hvars>>

Next ==
    \/ CheckRequired
    \/ CheckTimestamp
    \/ CheckTolerance
    \/ ExtractSignature
    \/ PreparePayload
    \/ ComputeSignature
    \/ CompareSignature
    \/ ConstructEvent

Spec == Init /\ [][Next]_allvars

----------------------------------------------------------------------------
(* watchProgress: bytes, the streaming TextDecoder, JSON.parse of a line   *)
(*                                                                         *)
(* A byte of the response body is a one-character string for an ASCII      *)
(* byte, and "C3" and "A9" for the two bytes of U+00E9.  A decoded         *)
(* character outside ASCII is named by its code point.                     *)

LeadByte == "C3"
ContinuationByte == "A9"
Replacement == "U+FFFD"

\* the character of a complete two-byte sequence
TwoByteChar(lead, cont) == "U+00E9"

\* the characters that the byte at position i of a byte sequence completes:
\* a continuation byte completes the character its lead byte began, a byte
\* that breaks off a sequence leaves U+FFFD for it
DecodeAt(bytes, i) ==
    LET b == bytes[i]
        afterLead == i > 1 /\ bytes[i - 1] = LeadByte
    IN  IF b = ContinuationByte
        THEN IF afterLead THEN <<TwoByteChar(bytes[i - 1], b)>> ELSE <<Replacement>>
        ELSE (IF afterLead THEN <<Replacement>> ELSE <<>>)
             \o (IF b = LeadByte THEN <<>> ELSE <<b>>)

\* the concatenation of pieces[lo], ..., pieces[hi]
RECURSIVE Flatten(_, _, _)
Flatten(pieces, lo, hi) ==
    IF lo > hi THEN <<>>
    ELSE IF lo = hi THEN pieces[lo]
    ELSE LET mid == (lo + hi) \div 2
         IN  Flatten(pieces, lo, mid) \o Flatten(pieces, mid + 1, hi)

\* the text of a byte sequence, and the incomplete sequence at its end
DecodeBytes(bytes) ==
    LET pieces == [i \in 1..Len(bytes) |-> DecodeAt(bytes, i)]
    IN  [text |-> Flatten(pieces, 1, Len(bytes)),
         held |-> IF bytes # <<>> /\ bytes[Len(bytes)] = LeadByte
                  THEN <<LeadByte>> ELSE <<>>]

\* new TextDecoder().decode(value) without { stream: true }: the bytes of one
\* call alone; an incomplete sequence at the end becomes U+FFFD
decode_NotStreaming(held, value) ==
    LET r == DecodeBytes(value)
    IN  [text |-> r.text \o (IF r.held = <<>> THEN <<>> ELSE <<Replacement>>),
         held |-> <<>>]

\* decoder.decode(value, { stream: true }): the bytes held back by the last
\* call come first, an incomplete sequence at the end is held back
decode(held, value) == DecodeBytes(held \o value)

\* line.startsWith("data: ")
DataPrefix == <<"d", "a", "t", "a", ":", " ">>

startsWith(line, prefix) ==
    /\ Len(line) >= Len(prefix)
    /\ SubSeq(line, 1, Len(prefix)) = prefix

\* line.slice(6)
slice(line, from) == SubSeq(line, from + 1, Len(line))

\* lines.pop() || "": the last element of a split, which is never empty
Last(seq) == seq[Len(seq)]

Front(seq) == SubSeq(seq, 1, Len(seq) - 1)

\* the stages of ProgressStage, and one the type does not have
Pending == <<"p", "e", "n", "d", "i", "n", "g">>
Processing == <<"p", "r", "o", "c", "e", "s", "s", "i", "n", "g">>
Completed == <<"c", "o", "m", "p", "l", "e", "t", "e", "d">>
Failed == <<"f", "a", "i", "l", "e", "d">>
Timeout == <<"t", "i", "m", "e", "o", "u", "t">>
Queued == <<"q", "u", "e", "u", "e", "d">>

ProgressStages == {Pending, Processing, Completed, Failed, Timeout}

TerminalStages == {Completed, Failed, Timeout}

\* a property that a value does not have
Undefined == <<"undefined">>

\* the values JSON.parse gives for the lines of the model
ProgressObject(stage, message) == [type |-> "object", stage |-> stage, message |-> message]

JsonNull == [type |-> "null", stage |-> Undefined, message |-> Undefined]

JsonNumber == [type |-> "number", stage |-> Undefined, message |-> Undefined]

Messages == {Undefined, <<"U+00E9">>, <<Replacement, Replacement>>}

DataValues ==
    {ProgressObject(s, m) : s \in ProgressStages \cup {Queued, Undefined}, m \in Messages}
        \cup {JsonNull, JsonNumber}

\* the JSON text of a value, as the server writes it
Member(key, text) == Quote(key) \o <<":">> \o Quote(text)

DataText(v) ==
    CASE v.type = "null" -> <<"n", "u", "l", "l">>
      [] v.type = "number" -> <<"7">>
      [] OTHER ->
            <<"{">>
            \o (IF v.stage = Undefined THEN <<>> ELSE Member(<<"s", "t", "a", "g", "e">>, v.stage))
            \o (IF v.stage # Undefined /\ v.message # Undefined THEN <<",">> ELSE <<>>)
            \o (IF v.message = Undefined THEN <<>> ELSE Member(<<"m", "e", "s", "s", "a", "g", "e">>, v.message))
            \o <<"}">>

\* a parser that gives null where JSON.parse raises
JSONparseData_NeverThrows(data) ==
    IF \E v \in DataValues : DataText(v) = data
    THEN [ok |-> TRUE, value |-> CHOOSE v \in DataValues : DataText(v) = data]
    ELSE [ok |-> TRUE, value |-> JsonNull]

\* JSON.parse(data): the value whose text data is, or a SyntaxError
JSONparseData(data) ==
    IF \E v \in DataValues : DataText(v) = data
    THEN [ok |-> TRUE, value |-> CHOOSE v \in DataValues : DataText(v) = data]
    ELSE [ok |-> FALSE, value |-> JsonNull]

\* event.stage: a TypeError on null, undefined on a value without the property
StageThrows(v) == v.type = "null"

\* event.stage === "completed" || event.stage === "failed" || event.stage === "timeout"
isTerminal(v) == v.stage \in TerminalStages

\* the bytes of a text: UTF-8
RECURSIVE encode(_)
encode(text) ==
    IF text = <<>> THEN <<>>
    ELSE (IF Head(text) = "U+00E9" THEN <<LeadByte, ContinuationByte>> ELSE <<Head(text)>>)
         \o encode(Tail(text))

----------------------------------------------------------------------------
(* watchProgress: the responses and the streams of the model               *)

\* the body of an error response, as response.json() gives it
ErrorBody(error, code) == [error |-> error, code |-> code]

NoBody == ErrorBody(Undefined, Undefined)

\* response.ok, response.status, response.body, and what response.json()
\* resolves to when it does not reject
Response(status, body, json, parses_) ==
    [status |-> status, ok |-> status \in 200..299, body |-> body,
     json |-> json, isJson |-> parses_]

Streaming == Response(200, "stream", NoBody, FALSE)

Responses ==
    { Streaming,
      Response(204, "null", NoBody, FALSE),
      Response(404, "stream", ErrorBody(<<"N", "o", "t", " ", "f", "o", "u", "n", "d">>, <<"n", "o", "t", "_", "f", "o", "u", "n", "d">>), TRUE),
      Response(500, "stream", ErrorBody(<<>>, Undefined), TRUE),
      Response(502, "stream", NoBody, FALSE) }

\* a line of the event stream
DataLine(v) == DataPrefix \o DataText(v)

ProcessingLine == DataLine(ProgressObject(Processing, Undefined))
PendingLine == DataLine(ProgressObject(Pending, <<"U+00E9">>))
FailedLine == DataLine(ProgressObject(Failed, Undefined))
TimeoutLine == DataLine(ProgressObject(Timeout, Undefined))
CompletedLine == DataLine(ProgressObject(Completed, Undefined))
QueuedLine == DataLine(ProgressObject(Queued, Undefined))
EmptyObjectLine == DataLine(ProgressObject(Undefined, Undefined))
NullLine == DataLine(JsonNull)
NumberLine == DataLine(JsonNumber)
MalformedLine == DataPrefix \o <<"{">>
BlankLine == <<>>
CommentLine == <<":", " ", "h", "i">>
EventFieldLine == <<"e", "v", "e", "n", "t", ":", " ", "p">>
IdLine == <<"i", "d", ":", " ", "1">>
NoSpaceLine == <<"d", "a", "t", "a", ":">> \o DataText(ProgressObject(Failed, Undefined))

\* the text of a stream: its complete lines, each ended by "\n", and the
\* characters after the last "\n"
RECURSIVE Terminated(_)
Terminated(ls) ==
    IF ls = <<>> THEN <<>> ELSE Head(ls) \o <<"\n">> \o Terminated(Tail(ls))

StreamText(ls, rest) == Terminated(ls) \o rest

StreamTexts ==
    { StreamText(<<>>, <<>>),
      StreamText(<<ProcessingLine, BlankLine, CompletedLine, BlankLine>>, <<>>),
      StreamText(<<FailedLine, ProcessingLine>>, CommentLine),
      StreamText(<<MalformedLine, ProcessingLine>>, <<>>),
      StreamText(<<PendingLine>>, TimeoutLine),
      StreamText(<<NullLine, TimeoutLine>>, <<>>),
      StreamText(<<QueuedLine, NumberLine>>, <<>>),
      StreamText(<<EmptyObjectLine>>, MalformedLine),
      StreamText(<<NoSpaceLine, CommentLine, EventFieldLine, IdLine, PendingLine>>, <<>>),
      StreamText(<<PendingLine, ProcessingLine>>, <<>>),
      StreamText(<<ProcessingLine>>, MalformedLine) }

Streams == {encode(text) : text \in StreamTexts}

\* the shorter bodies, for the runs that look at whole behaviours
ShortStreamTexts ==
    { StreamText(<<>>, <<>>),
      StreamText(<<NullLine, TimeoutLine>>, <<>>),
      StreamText(<<ProcessingLine>>, MalformedLine) }

ShortStreams == {encode(text) : text \in ShortStreamTexts}

----------------------------------------------------------------------------
(* watchProgress: the generator, its consumer and its transport            *)
(*                                                                         *)
(* gen is the generator's position: suspendedStart (created, not pulled),  *)
(* fetch, json and read (awaiting that promise), suspendedYield, and       *)
(* completed.  An action runs the code from one suspension to the next.    *)

\* pulls made after the generator has ended
MaxLate == 2

\* new NetworkError({ message, code }): the constructor sets statusCode to
\* undefined
NetworkError(via, message, code) ==
    [kind |-> "throw", via |-> via, name |-> "NetworkError", message |-> message,
     code |-> code, statusCode |-> Undefined]

\* an error that is not the SDK's: the rejection of fetch or of read, or
\* what the consumer throws into the generator
PlatformError(via, name) ==
    [kind |-> "throw", via |-> via, name |-> name, message |-> <<>>,
     code |-> Undefined, statusCode |-> Undefined]

\* the generator returns
Returned(via) ==
    [kind |-> "return", via |-> via, name |-> "", message |-> <<>>,
     code |-> Undefined, statusCode |-> Undefined]

\* body.error || `HTTP ${response.status}`
ErrorMessage(body, status) ==
    IF body.error = Undefined \/ body.error = <<>>
    THEN <<"H", "T", "T", "P", " ">> \o NatToString(status)
    ELSE body.error

StreamInit ==
    /\ response \in Responses
    /\ stream \in (IF response = Streaming THEN Streams ELSE {<<>>})
    /\ signal = FALSE
    /\ sent = 0
    /\ pending = <<>>
    /\ buffer = <<>>
    /\ lines = <<>>
    /\ gen = "suspendedStart"
    /\ locked = FALSE
    /\ requests = 0
    /\ reads = 0
    /\ yielded = <<>>
    /\ answer = "none"
    /\ outcome = NoOutcome
    /\ thrown = FALSE
    /\ late = 0
    /\ NoCall
    /\ NoRequest

StreamInit_Short ==
    /\ response \in Responses
    /\ stream \in (IF response = Streaming THEN ShortStreams ELSE {<<>>})
    /\ signal = FALSE
    /\ sent = 0
    /\ pending = <<>>
    /\ buffer = <<>>
    /\ lines = <<>>
    /\ gen = "suspendedStart"
    /\ locked = FALSE
    /\ requests = 0
    /\ reads = 0
    /\ yielded = <<>>
    /\ answer = "none"
    /\ outcome = NoOutcome
    /\ thrown = FALSE
    /\ late = 0
    /\ NoCall
    /\ NoRequest

\* what the server sends and what the decoder and the loop hold
transport == <<response, stream, sent, pending, buffer>>

\* the generator ends by an error: the pending call of the consumer rejects
Raise(error) ==
    /\ gen' = "completed"
    /\ outcome' = error
    /\ answer' = "throw"

\* the generator ends by a return: the pending call resolves { done: true }
Return(via) ==
    /\ gen' = "completed"
    /\ outcome' = Returned(via)
    /\ answer' = "done"

\* a test for "data:" alone, the space after the colon taken as optional
Yields_DataColon(line) ==
    /\ startsWith(line, SubSeq(DataPrefix, 1, 5))
    /\ JSONparseData(slice(line, 5)).ok

\* a line of the for loop yields when it starts with "data: " and the rest
\* parses
Yields(line) == startsWith(line, DataPrefix) /\ JSONparseData(slice(line, 6)).ok

\* the for loop over the lines not yet looked at, up to its first yield;
\* with no line left the while loop calls reader.read() again
Continue(ls) ==
    IF \E k \in 1..Len(ls) : Yields(ls[k])
    THEN LET k == CHOOSE i \in 1..Len(ls) : Yields(ls[i]) /\ \A j \in 1..(i - 1) : ~Yields(ls[j])
         IN  /\ yielded' = Append(yielded, JSONparseData(slice(ls[k], 6)).value)
             /\ lines' = SubSeq(ls, k + 1, Len(ls))
             /\ gen' = "suspendedYield"
             /\ answer' = "value"
             /\ UNCHANGED <<reads, outcome>>
    ELSE /\ lines' = <<>>
         /\ reads' = reads + 1
         /\ gen' = "read"
         /\ answer' = "pending"
         /\ UNCHANGED <<yielded, outcome>>

\* the consumer's first next(): the generator starts and awaits fetch
Pull ==
    /\ gen = "suspendedStart"
    /\ requests' = requests + 1
    /\ gen' = "fetch"
    /\ answer' = "pending"
    /\ UNCHANGED <<transport, signal, lines, locked, reads, yielded, outcome, thrown, late>>
    /\ UNCHANGED <<vars, hvars>>

\* the response taken for a stream without a look at response.ok
FetchResolves_NoStatusCheck ==
    /\ gen = "fetch"
    /\ ~signal
    /\ IF response.body = "null"
       THEN /\ Raise(NetworkError("body", <<"N", "o", " ", "r", "e", "s", "p", "o", "n", "s", "e", " ", "b", "o", "d", "y">>, Undefined))
            /\ UNCHANGED <<locked, reads>>
       ELSE /\ locked' = TRUE
            /\ reads' = reads + 1
            /\ gen' = "read"
            /\ UNCHANGED <<answer, outcome>>
    /\ UNCHANGED <<transport, signal, lines, requests, yielded, thrown, late>>
    /\ UNCHANGED <<vars, hvars>>

\* fetch resolves with the response: an error status goes on to read the
\* error body, a missing body raises, otherwise the reader is taken and the
\* first read is under way
FetchResolves ==
    /\ gen = "fetch"
    /\ ~signal
    /\ IF ~response.ok
       THEN /\ gen' = "json"
            /\ UNCHANGED <<locked, reads, answer, outcome>>
       ELSE IF response.body = "null"
            THEN /\ Raise(NetworkError("body", <<"N", "o", " ", "r", "e", "s", "p", "o", "n", "s", "e", " ", "b", "o", "d", "y">>, Undefined))
                 /\ UNCHANGED <<locked, reads>>
            ELSE /\ locked' = TRUE
                 /\ reads' = reads + 1
                 /\ gen' = "read"
                 /\ UNCHANGED <<answer, outcome>>
    /\ UNCHANGED <<transport, signal, lines, requests, yielded, thrown, late>>
    /\ UNCHANGED <<vars, hvars>>

\* a rejected fetch answered by a second request
FetchRejects_RetriesOnce ==
    /\ gen = "fetch"
    /\ IF requests < 2
       THEN /\ requests' = requests + 1
            /\ UNCHANGED <<gen, outcome, answer>>
       ELSE /\ Raise(PlatformError("fetch", IF signal THEN "AbortError" ELSE "TypeError"))
            /\ UNCHANGED requests
    /\ UNCHANGED <<transport, signal, lines, locked, reads, yielded, thrown, late>>
    /\ UNCHANGED <<vars, hvars>>

\* fetch rejects: the connection failed, or the signal has fired
FetchRejects ==
    /\ gen = "fetch"
    /\ Raise(PlatformError("fetch", IF signal THEN "AbortError" ELSE "TypeError"))
    /\ UNCHANGED <<transport, signal, lines, locked, requests, reads, yielded, thrown, late>>
    /\ UNCHANGED <<vars, hvars>>

\* response.json().catch(() => ({})) settles, to the parsed body or to {}
JsonSettles ==
    /\ gen = "json"
    /\ LET body == IF response.isJson /\ ~signal THEN response.json ELSE NoBody
       IN  Raise(NetworkError("status", ErrorMessage(body, response.status), body.code))
    /\ UNCHANGED <<transport, signal, lines, locked, requests, reads, yielded, thrown, late>>
    /\ UNCHANGED <<vars, hvars>>

\* the last part not taken off the lines: the text stays in the buffer whole
ReadResolves_KeepsLines ==
    /\ gen = "read"
    /\ ~signal
    /\ \E n \in 1..(Len(stream) - sent) :
       \E value \in {SubSeq(stream, sent + 1, sent + n)} :
       \E decoded \in {decode(pending, value)} :
       \E parts \in {split(buffer \o decoded.text, "\n")} :
          /\ sent' = sent + n
          /\ pending' = decoded.held
          /\ buffer' = buffer \o decoded.text
          /\ Continue(Front(parts))
    /\ UNCHANGED <<response, stream, signal, locked, requests, thrown, late>>
    /\ UNCHANGED <<vars, hvars>>

\* a decoder without the stream option
ReadResolves_NotStreaming ==
    /\ gen = "read"
    /\ ~signal
    /\ \E n \in 1..(Len(stream) - sent) :
       \E value \in {SubSeq(stream, sent + 1, sent + n)} :
       \E decoded \in {decode_NotStreaming(pending, value)} :
       \E parts \in {split(buffer \o decoded.text, "\n")} :
          /\ sent' = sent + n
          /\ pending' = decoded.held
          /\ buffer' = Last(parts)
          /\ Continue(Front(parts))
    /\ UNCHANGED <<response, stream, signal, locked, requests, thrown, late>>
    /\ UNCHANGED <<vars, hvars>>

\* reader.read() resolves with the next bytes of the body, however many.
\* (value, the decoded text and the split lines are each one value, bound
\* by a quantifier over a one-element set.)
ReadResolves ==
    /\ gen = "read"
    /\ ~signal
    /\ \E n \in 1..(Len(stream) - sent) :
       \E value \in {SubSeq(stream, sent + 1, sent + n)} :
       \E decoded \in {decode(pending, value)} :
       \E parts \in {split(buffer \o decoded.text, "\n")} :
          /\ sent' = sent + n
          /\ pending' = decoded.held
          /\ buffer' = Last(parts)
          /\ Continue(Front(parts))
    /\ UNCHANGED <<response, stream, signal, locked, requests, thrown, late>>
    /\ UNCHANGED <<vars, hvars>>

\* the end of the body before a terminal event taken for a failure
ReadDone_Raises ==
    /\ gen = "read"
    /\ ~signal
    /\ sent = Len(stream)
    /\ locked' = FALSE
    /\ Raise(NetworkError("done", <<"S", "t", "r", "e", "a", "m", " ", "e", "n", "d", "e", "d">>, Undefined))
    /\ UNCHANGED <<transport, signal, lines, requests, reads, yielded, thrown, late>>
    /\ UNCHANGED <<vars, hvars>>

\* the rest of the buffer looked at as one more line when the body ends
ReadDone_FlushesBuffer ==
    /\ gen = "read"
    /\ ~signal
    /\ sent = Len(stream)
    /\ IF Yields(buffer)
       THEN /\ buffer' = <<>>
            /\ Continue(<<buffer>>)
            /\ UNCHANGED <<response, stream, sent, pending, signal, locked, requests,
                           thrown, late>>
       ELSE /\ locked' = FALSE
            /\ Return("done")
            /\ UNCHANGED <<transport, signal, lines, requests, reads, yielded, thrown, late>>
    /\ UNCHANGED <<vars, hvars>>

\* reader.read() resolves { done: true }: break, and the finally block
ReadDone ==
    /\ gen = "read"
    /\ ~signal
    /\ sent = Len(stream)
    /\ locked' = FALSE
    /\ Return("done")
    /\ UNCHANGED <<transport, signal, lines, requests, reads, yielded, thrown, late>>
    /\ UNCHANGED <<vars, hvars>>

\* reader.read() rejects, the transport having failed or the signal having
\* fired: the error leaves the loop through the finally block
ReadRejects_KeepsLock ==
    /\ gen = "read"
    /\ Raise(PlatformError("read", IF signal THEN "AbortError" ELSE "TypeError"))
    /\ UNCHANGED <<transport, signal, lines, locked, requests, reads, yielded, thrown, late>>
    /\ UNCHANGED <<vars, hvars>>

ReadRejects ==
    /\ gen = "read"
    /\ locked' = FALSE
    /\ Raise(PlatformError("read", IF signal THEN "AbortError" ELSE "TypeError"))
    /\ UNCHANGED <<transport, signal, lines, requests, reads, yielded, thrown, late>>
    /\ UNCHANGED <<vars, hvars>>

\* next() at a yield: the stage of the event just yielded is looked at.  A
\* TypeError of event.stage is taken by the catch block around the yield
Resume_NoTerminalCheck ==
    /\ gen = "suspendedYield"
    /\ Continue(lines)
    /\ UNCHANGED <<locked>>
    /\ UNCHANGED <<transport, signal, requests, thrown, late>>
    /\ UNCHANGED <<vars, hvars>>

Resume ==
    /\ gen = "suspendedYield"
    /\ LET ev == Last(yielded)
       IN  IF ~StageThrows(ev) /\ isTerminal(ev)
           THEN /\ locked' = FALSE
                /\ Return("terminal")
                /\ UNCHANGED <<lines, reads, yielded>>
           ELSE /\ Continue(lines)
                /\ UNCHANGED locked
    /\ UNCHANGED <<transport, signal, requests, thrown, late>>
    /\ UNCHANGED <<vars, hvars>>

\* return() of the consumer (break, or an exception in the body of its
\* for await loop): at a yield the finally block runs
ConsumerReturn ==
    /\ gen \in {"suspendedStart", "suspendedYield"}
    /\ locked' = FALSE
    /\ Return("return()")
    /\ UNCHANGED <<transport, signal, lines, requests, reads, yielded, thrown, late>>
    /\ UNCHANGED <<vars, hvars>>

\* throw() of the consumer: before the first pull the generator ends with
\* the error; at a yield the error is raised inside the try block of the
\* line and its catch block takes it, so the loop goes on with the next line
ConsumerThrow ==
    /\ gen \in {"suspendedStart", "suspendedYield"}
    /\ thrown' = TRUE
    /\ IF gen = "suspendedStart"
       THEN /\ Raise(PlatformError("throw()", "ConsumerError"))
            /\ UNCHANGED <<lines, reads, yielded>>
       ELSE Continue(lines)
    /\ UNCHANGED <<transport, signal, locked, requests, late>>
    /\ UNCHANGED <<vars, hvars>>

\* the caller's AbortSignal fires; the signal was given to fetch only
Abort ==
    /\ gen \notin {"none", "completed"}
    /\ ~signal
    /\ signal' = TRUE
    /\ UNCHANGED <<transport, lines, gen, locked, requests, reads, yielded, answer,
                   outcome, thrown, late>>
    /\ UNCHANGED <<vars, hvars>>

\* next() on the generator that has ended
PullAfterEnd_Restarts ==
    /\ gen = "completed"
    /\ late < MaxLate
    /\ late' = late + 1
    /\ requests' = requests + 1
    /\ gen' = "fetch"
    /\ answer' = "pending"
    /\ UNCHANGED <<transport, signal, lines, locked, reads, yielded, outcome, thrown>>
    /\ UNCHANGED <<vars, hvars>>

PullAfterEnd ==
    /\ gen = "completed"
    /\ late < MaxLate
    /\ late' = late + 1
    /\ answer' = "done"
    /\ UNCHANGED <<transport, signal, lines, gen, locked, requests, reads, yielded,
                   outcome, thrown>>
    /\ UNCHANGED <<vars, hvars>>

StreamNext ==
    \/ Pull
    \/ FetchResolves
    \/ FetchRejects
    \/ JsonSettles
    \/ ReadResolves
    \/ ReadDone
    \/ ReadRejects
    \/ Resume
    \/ ConsumerReturn
    \/ ConsumerThrow
    \/ Abort
    \/ PullAfterEnd

StreamSpec == StreamInit /\ [][StreamNext]_allvars

\* either program: a call of the webhook functions, or a progress stream
SdkSpec == (Init \/ StreamInit) /\ [][Next \/ StreamNext]_allvars

\* the consumer goes on pulling, and every promise the generator awaits
\* settles
StreamFairSpec ==
    /\ StreamInit_Short
    /\ [][StreamNext]_allvars
    /\ WF_allvars(Pull)
    /\ WF_allvars(Resume)
    /\ WF_allvars(FetchResolves \/ FetchRejects)
    /\ WF_allvars(JsonSettles)
    /\ WF_allvars(ReadResolves \/ ReadDone \/ ReadRejects)

----------------------------------------------------------------------------
(* Properties                                                               *)

\* verifyWebhookSignature has returned or thrown
VerifySettled == result # "pending"

IsDigitString(s) == s # <<>> /\ \A i \in 1..Len(s) : IsDigit(s[i])

\* a timestamp that is a number or a string of digits
WellFormedTimestamp(t) ==
    IF t.kind = "string" THEN IsDigitString(t.str) ELSE ~t.num.nan

\* the number a well-formed timestamp denotes
TimestampValue(t) == IF t.kind = "string" THEN DigitsValue(t.str, 0) ELSE t.num.val

\* "sha256=" + hex HMAC-SHA256(secret, timestamp + "." + payloadString)
DerivedSignature(p, t, sec) ==
    Scheme(computeHmacSha256(HeaderText(t) \o <<".">> \o PayloadString(p), sec))

\* C1: every call with a string or serialisable payload, a non-empty secret, a
\* timestamp within the tolerance of the clock and the signature derived from
\* (secret, timestamp + "." + payloadString) returns true.
C1_DerivedSignatureAccepted ==
    ( /\ VerifySettled
      /\ payload.kind # "cyclic"
      /\ secret # <<>>
      /\ WellFormedTimestamp(timestamp)
      /\ Abs(clock - TimestampValue(timestamp)) <= tolerance * 1000
      /\ signature = DerivedSignature(payload, timestamp, secret) )
    => result = "true"

\* every string that differs from s in exactly one position
OneByteChanged(s) ==
    {[s EXCEPT ![i] = c] : i \in 1..Len(s), c \in DOMAIN charCodeAt} \ {s}

\* every signature that differs from sig in exactly one position of its hex
HexByteChanged(sig) ==
    {[sig EXCEPT ![i] = c] : i \in (Len(sha256) + 2)..Len(sig), c \in DOMAIN charCodeAt} \ {sig}

\* the payloads one change away from p: a string with one byte changed, or
\* another payload object
PayloadChanged(p) ==
    IF p.kind = "string" THEN {StringPayload(text) : text \in OneByteChanged(p.str)}
    ELSE {ObjectPayload(o) : o \in JsonObjects \ {p.obj}}

\* C2: from an accepted (payload, signature, timestamp, secret), one byte
\* changed in the payload, in the secret or in the signature hex, the rest
\* held fixed, makes the call raise WebhookSignatureError.
C2_OneByteChangeRejected ==
    (VerifySettled /\ result = "true") =>
        /\ \A p \in PayloadChanged(payload) :
              verifyWebhookSignature(p, signature, timestamp, secret, tolerance, clock)
                  \in WebhookSignatureErrors
        /\ \A sec \in OneByteChanged(secret) :
              verifyWebhookSignature(payload, signature, timestamp, sec, tolerance, clock)
                  \in WebhookSignatureErrors
        /\ \A sig \in HexByteChanged(signature) :
              verifyWebhookSignature(payload, sig, timestamp, secret, tolerance, clock)
                  \in WebhookSignatureErrors

\* an accepted call with a string payload, whose bytes the claim changes
C2_Witness ==
    /\ VerifySettled /\ result = "true"
    /\ payload.kind = "string" /\ Len(payload.str) > 1
    /\ entry = "verifyWebhookSignature"

\* the call got as far as the tolerance check: nothing is missing and the
\* timestamp is a number
ReachesToleranceCheck ==
    /\ ~MissingParameters(signature, timestamp, secret)
    /\ ~isNaN(ParseTimestamp(timestamp))

\* the signature is the digest of the text the code signs for this call
CorrectlySigned ==
    /\ payload.kind # "cyclic"
    /\ ~isNaN(ParseTimestamp(timestamp))
    /\ signature = Scheme(computeHmacSha256(
                       SignedPayload(ParseTimestamp(timestamp), PayloadString(payload)),
                       secret))

\* C3: the replay window is symmetric.  A timestamp more than `tolerance`
\* seconds before the clock is rejected as too old, and so is one more than
\* `tolerance` seconds after it, whatever the signature; a timestamp at most
\* `tolerance` seconds away is never rejected as too old.
C3_SymmetricWindow ==
    (VerifySettled /\ ReachesToleranceCheck) =>
        LET t == ParseTimestamp(timestamp).val
        IN  /\ t < clock - tolerance * 1000 => result = TooOld
            /\ t > clock + tolerance * 1000 => result = TooOld
            /\ (clock - tolerance * 1000 <= t /\ t <= clock + tolerance * 1000)
                  => result # TooOld

\* a correctly signed delivery stamped past the window in the future is rejected
C3_Witness ==
    /\ VerifySettled /\ ReachesToleranceCheck /\ CorrectlySigned
    /\ ParseTimestamp(timestamp).val = clock + tolerance * 1000 + 1
    /\ result = TooOld

\* C4: the checks run in the order missing parameter, invalid timestamp,
\* timestamp outside tolerance, invalid signature format, digest mismatch, and
\* the error raised is that of the earliest check the input violates.
C4_FirstFailureWins ==
    VerifySettled =>
        LET missing  == MissingParameters(signature, timestamp, secret)
            invalid  == isNaN(ParseTimestamp(timestamp))
            outside  == ~invalid /\ OutsideTolerance(clock, ParseTimestamp(timestamp), tolerance)
            format   == BadSignatureFormat(signature)
            mismatch == /\ ~invalid /\ ~format /\ payload.kind # "cyclic"
                        /\ ExpectedSig(signature) #
                             computeHmacSha256(
                                 SignedPayload(ParseTimestamp(timestamp), PayloadString(payload)),
                                 secret)
        IN  /\ missing => result = Missing
            /\ (~missing /\ invalid) => result = InvalidTimestamp
            /\ (~missing /\ ~invalid /\ outside) => result = TooOld
            /\ (~missing /\ ~invalid /\ ~outside /\ format) => result = InvalidFormat
            /\ (~missing /\ ~invalid /\ ~outside /\ ~format /\ mismatch) => result = Mismatch

\* calls that violate several checks at once: a stale timestamp with a
\* malformed signature
C4_Witness ==
    /\ VerifySettled /\ ReachesToleranceCheck
    /\ OutsideTolerance(clock, ParseTimestamp(timestamp), tolerance)
    /\ BadSignatureFormat(signature)
    /\ result = TooOld

C6_SignsTimestampAsPassed ==
    digests > 0 => signedPayload = HeaderText(timestamp) \o <<".">> \o payloadStr

\* C7 as claimed: a non-empty timestamp that is neither a number nor a string
\* of digits raises the invalid-timestamp error, before the tolerance check and
\* before any digest.
C7_NonDigitStringRejected ==
    ( /\ VerifySettled
      /\ ~MissingParameters(signature, timestamp, secret)
      /\ timestamp.kind = "string"
      /\ ~IsDigitString(timestamp.str) )
    => (result = InvalidTimestamp /\ digests = 0 /\ now = 0)

\* a delivery stamped with the clock in seconds, as a number or as its
\* decimal string
StampedInSeconds ==
    \/ timestamp = NumberTimestamp(Num(clock \div 1000))
    \/ timestamp = StringTimestamp(NumberToString(Num(clock \div 1000)))

\* a delivery stamped with the clock in milliseconds
StampedInMilliseconds ==
    \/ timestamp = NumberTimestamp(Num(clock)) /\ clock # 0
    \/ timestamp = StringTimestamp(NumberToString(Num(clock)))

C9_MonotoneInTolerance ==
    VerifySettled =>
        \A t \in Tolerances \cup {tolerance + 1} :
            /\ (result = "true" /\ t >= tolerance) =>
                  verifyWebhookSignature(payload, signature, timestamp, secret, t, clock)
                      = "true"
            /\ (result = TooOld /\ t <= tolerance) =>
                  verifyWebhookSignature(payload, signature, timestamp, secret, t, clock)
                      = TooOld

\* a delivery accepted under the default tolerance that a smaller one rejects
C9_Witness ==
    /\ VerifySettled /\ result = "true" /\ tolerance = DefaultTolerance
    /\ verifyWebhookSignature(payload, signature, timestamp, secret, 1, clock) = TooOld

\* C10: constructEvent returns, for an object payload that verifies, a value
\* whose event and data are the payload's; for a string payload that verifies,
\* the JSON decoding of the string.
C10_ConstructEventRoundTrip ==
    (entry = "constructEvent" /\ pc = "done" /\ result = "true") =>
        /\ payload.kind = "object" =>
              /\ event.status = "returned"
              /\ event.value.event = payload.obj.event
              /\ event.value.data = payload.obj.data
        /\ payload.kind = "string" =>
              \A o \in JsonObjects :
                  payload.str = JSONstringify(o) =>
                      (event.status = "returned" /\ event.value = o)

\* constructEvent has returned the event of an object payload
C10_Witness ==
    /\ entry = "constructEvent" /\ pc = "done" /\ result = "true"
    /\ payload.kind = "object"
    /\ event.status = "returned"
    /\ event.value = JsonObject(<<"x">>, <<"w">>)

\* C11: constructEvent verifies before it parses.  It returns an event only
\* after verifyWebhookSignature has returned true on its arguments; when the
\* verification raises WebhookSignatureError, constructEvent raises that error
\* and has not parsed the payload, malformed or not; when the verification
\* succeeds on a malformed JSON string, the error raised is the SyntaxError of
\* JSON.parse, not a WebhookSignatureError.
C11_VerifyBeforeParse ==
    /\ event.status = "returned" => (entry = "constructEvent" /\ result = "true")
    /\ parses > 0 => result = "true"
    /\ (entry = "constructEvent" /\ pc = "done" /\ result \in WebhookSignatureErrors) =>
          (event.status = "threw" /\ event.error = result /\ parses = 0)
    /\ (entry = "constructEvent" /\ pc = "done" /\ result = "true"
          /\ payload.kind = "string" /\ ~JSONparse(payload.str).ok) =>
          /\ event.status = "threw"
          /\ event.error = "SyntaxError"
          /\ event.error \notin WebhookSignatureErrors
          /\ parses = 1

\* a correctly signed malformed JSON string has gone through constructEvent
C11_Witness ==
    /\ entry = "constructEvent" /\ pc = "done" /\ result = "true"
    /\ payload = StringPayload(<<"{">>)
    /\ event.status = "threw" /\ event.error = "SyntaxError"

\* a malformed JSON string whose verification failed: it was never parsed
C11_WitnessRejected ==
    /\ entry = "constructEvent" /\ pc = "done" /\ result = Mismatch
    /\ payload = StringPayload(<<"{">>)
    /\ parses = 0

----------------------------------------------------------------------------
(* parseApiError and HttpClient (src/http.ts)                               *)
(*                                                                         *)
(* One call of request or upload.  hpc is its position: file (upload        *)
(* awaiting a read of the file stream), fetch and json (awaiting that       *)
(* promise), settled.  timer is the abort timer: armed, cleared or fired.   *)

DefaultTimeout == 30000

UploadTimeout == 600000

\* options.timeout || DEFAULT_TIMEOUT
EffectiveTimeout(option) == IF option = 0 THEN DefaultTimeout ELSE option

\* Math.max(this.timeout, 600000)
Max(a, b) == IF a >= b THEN a ELSE b

\* a statusCode that is set, and one that is undefined
StatusCode(n) == [set |-> TRUE, val |-> n]

NoStatusCode == [set |-> FALSE, val |-> 0]

\* a || b on strings: undefined and "" are falsy
OrElse(a, b) == IF a = Undefined \/ a = <<>> THEN b ELSE a

\* text.includes(part)
includes(text, part) ==
    \E i \in 1..(Len(text) - Len(part) + 1) : SubSeq(text, i, i + Len(part) - 1) = part

\* an error of the SDK: the fields that PlayVideoError keeps
SdkError(via, name, options, statusCode) ==
    [kind |-> "rejected", via |-> via, name |-> name, message |-> options.message,
     code |-> options.code, statusCode |-> statusCode, requestId |-> options.requestId,
     param |-> options.param]

\* an error of the platform, or of the caller's callback
OtherError(via, name, message) ==
    [kind |-> "rejected", via |-> via, name |-> name, message |-> message,
     code |-> Undefined, statusCode |-> NoStatusCode, requestId |-> Undefined,
     param |-> Undefined]

\* the options of an error made from a message alone
MessageOnly(message) ==
    [message |-> message, code |-> Undefined, requestId |-> Undefined, param |-> Undefined]

\* new TimeoutError({ message }) and new NetworkError({ message }): statusCode
\* is undefined
TimeoutError(message) == SdkError("catch", "TimeoutError", MessageOnly(message), NoStatusCode)

RequestNetworkError(message) ==
    SdkError("catch", "NetworkError", MessageOnly(message), NoStatusCode)

\* a switch in which 422 is not a case
parseApiError_Without422(status, body, requestId) ==
    LET options == [message |-> OrElse(body.message, OrElse(body.error, <<"H", "T", "T", "P", " ">> \o NatToString(status))),
                    code |-> body.code, requestId |-> requestId, param |-> body.param]
    IN  CASE status = 401 -> SdkError("api", "AuthenticationError", options, StatusCode(401))
          [] status = 403 -> SdkError("api", "AuthorizationError", options, StatusCode(403))
          [] status = 404 -> SdkError("api", "NotFoundError", options, StatusCode(404))
          [] status = 409 -> SdkError("api", "ConflictError", options, StatusCode(409))
          [] status = 429 -> SdkError("api", "RateLimitError", options, StatusCode(429))
          [] status = 400 -> SdkError("api", "ValidationError", options, StatusCode(status))
          [] OTHER ->
                IF status >= 500
                THEN SdkError("api", "ServerError", options, StatusCode(status))
                ELSE SdkError("api", "PlayVideoError", options, StatusCode(status))

\* parseApiError(status, body, requestId): the error it throws
parseApiError(status, body, requestId) ==
    LET options == [message |-> OrElse(body.message, OrElse(body.error, <<"H", "T", "T", "P", " ">> \o NatToString(status))),
                    code |-> body.code, requestId |-> requestId, param |-> body.param]
    IN  CASE status = 401 -> SdkError("api", "AuthenticationError", options, StatusCode(401))
          [] status = 403 -> SdkError("api", "AuthorizationError", options, StatusCode(403))
          [] status = 404 -> SdkError("api", "NotFoundError", options, StatusCode(404))
          [] status = 409 -> SdkError("api", "ConflictError", options, StatusCode(409))
          [] status = 429 -> SdkError("api", "RateLimitError", options, StatusCode(429))
          [] status \in {400, 422} -> SdkError("api", "ValidationError", options, StatusCode(status))
          [] OTHER ->
                IF status >= 500
                THEN SdkError("api", "ServerError", options, StatusCode(status))
                ELSE SdkError("api", "PlayVideoError", options, StatusCode(status))

\* the body of an API response, as response.json() gives it
ApiBody(error, message, code, param) ==
    [error |-> error, message |-> message, code |-> code, param |-> param]

EmptyBody == ApiBody(Undefined, Undefined, Undefined, Undefined)

ApiBodies ==
    { EmptyBody,
      ApiBody(<<"G", "o", "n", "e">>, Undefined, Undefined, Undefined),
      ApiBody(<<"G", "o", "n", "e">>, <<"N", "o", " ", "s", "u", "c", "h", " ", "v", "i", "d", "e", "o">>, <<"n", "o", "t", "_", "f", "o", "u", "n", "d">>, <<"i", "d">>) }

\* the statuses of the model
Statuses == {200, 201, 302, 400, 401, 402, 403, 404, 409, 418, 422, 429, 499, 500, 503}

\* response.headers.get("x-request-id"): null, "" or an id
RequestIdHeaders == {Undefined, <<>>, <<"r", "e", "q", "1", "2", "3">>}

HttpResponse(status, header, isJson, json) ==
    [status |-> status, ok |-> status \in 200..299, requestId |-> header,
     isJson |-> isJson, json |-> json]

HttpResponses ==
    {HttpResponse(st, h, TRUE, b) : st \in Statuses, h \in RequestIdHeaders, b \in ApiBodies}
        \cup {HttpResponse(st, Undefined, FALSE, EmptyBody) : st \in {200, 404, 502}}

\* what fetch rejects with when the request was not aborted
FetchFailures ==
    { OtherError("fetch", "TypeError", <<"f", "e", "t", "c", "h", " ", "f", "a", "i", "l", "e", "d">>),
      OtherError("fetch", "TypeError", <<"I", "n", "v", "a", "l", "i", "d", " ", "U", "R", "L">>),
      OtherError("fetch", "Error", <<"b", "o", "o", "m">>) }

\* the catch block: an AbortError becomes a TimeoutError, a TypeError that
\* names fetch a NetworkError, every other error is thrown again as it is
Rethrown(error, after) ==
    IF error.name = "AbortError"
    THEN TimeoutError((IF method = "upload" THEN <<"U", "p", "l", "o", "a", "d">> ELSE <<"R", "e", "q", "u", "e", "s", "t">>)
                      \o <<" ", "t", "i", "m", "e", "d", " ", "o", "u", "t", " ", "a", "f", "t", "e", "r", " ">> \o NatToString(after) \o <<"m", "s">>)
    ELSE IF error.name = "TypeError" /\ includes(error.message, <<"f", "e", "t", "c", "h">>)
         THEN RequestNetworkError(<<"N", "e", "t", "w", "o", "r", "k", " ", "e", "r", "r", "o", "r", ":", " ">> \o error.message)
         ELSE error

\* the delay of the abort timer
TimerDelay == IF method = "upload" THEN Max(timeout, UploadTimeout) ELSE timeout

HttpInit ==
    /\ method \in {"request", "upload"}
    /\ timeout \in {EffectiveTimeout(option) : option \in {0, 60000}}
    /\ file \in (IF method = "upload" THEN {"blob", "buffer", "stream"} ELSE {"none"})
    /\ chunks \in (IF file = "stream" THEN {0, 1} ELSE {0})
    /\ onProgress \in (IF method = "upload" THEN {"none", "callback", "throws"} ELSE {"none"})
    /\ hresponse \in HttpResponses
    /\ hpc = (IF file = "stream" THEN "file" ELSE "fetch")
    /\ timer = "armed"
    /\ aborted = FALSE
    /\ elapsed = FALSE
    /\ settled = Unsettled
    /\ NoCall
    /\ NoStream

\* the arguments of the call and the response the server has for it
call == <<method, timeout, file, onProgress, hresponse>>

\* catch (error) { clearTimeout(timeoutId); ... throw }
Catch_TimerLeft(error) ==
    /\ settled' = Rethrown(error, TimerDelay)
    /\ hpc' = "settled"
    /\ UNCHANGED timer

Catch(error) ==
    /\ timer' = (IF timer = "armed" THEN "cleared" ELSE timer)
    /\ settled' = Rethrown(error, TimerDelay)
    /\ hpc' = "settled"

\* the delay has passed: the callback of an armed timer runs
\* controller.abort(), a cleared timer does nothing
TimeoutElapses ==
    /\ hpc # "none"
    /\ ~elapsed
    /\ elapsed' = TRUE
    /\ IF timer = "armed"
       THEN timer' = "fired" /\ aborted' = TRUE
       ELSE UNCHANGED <<timer, aborted>>
    /\ UNCHANGED <<call, chunks, hpc, settled>>
    /\ UNCHANGED <<vars, svars>>

\* upload of a ReadableStream: reader.read() resolves with a chunk, or with
\* done, after which the form is built and fetch is called
FileRead ==
    /\ hpc = "file"
    /\ IF chunks > 0
       THEN chunks' = chunks - 1 /\ UNCHANGED hpc
       ELSE hpc' = "fetch" /\ UNCHANGED chunks
    /\ UNCHANGED <<call, timer, aborted, elapsed, settled>>
    /\ UNCHANGED <<vars, svars>>

\* reader.read() of the file rejects
FileReadRejects ==
    /\ hpc = "file"
    /\ Catch(OtherError("file", "Error", <<"b", "o", "o", "m">>))
    /\ UNCHANGED <<call, chunks, aborted, elapsed>>
    /\ UNCHANGED <<vars, svars>>

\* fetch resolves with the response: clearTimeout, the request id, and
\* response.json() is awaited
RequestFetchResolves_TimerKept ==
    /\ hpc = "fetch"
    /\ ~aborted
    /\ hpc' = "json"
    /\ UNCHANGED <<call, chunks, timer, aborted, elapsed, settled>>
    /\ UNCHANGED <<vars, svars>>

RequestFetchResolves ==
    /\ hpc = "fetch"
    /\ ~aborted
    /\ timer' = "cleared"
    /\ hpc' = "json"
    /\ UNCHANGED <<call, chunks, aborted, elapsed, settled>>
    /\ UNCHANGED <<vars, svars>>

\* fetch rejects: with an AbortError once the controller has aborted, else
\* with a failure of the connection or of the call
RequestFetchRejects_TimerLeft ==
    /\ hpc = "fetch"
    /\ \E error \in (IF aborted THEN {OtherError("fetch", "AbortError", <<>>)}
                     ELSE FetchFailures) : Catch_TimerLeft(error)
    /\ UNCHANGED <<call, chunks, aborted, elapsed>>
    /\ UNCHANGED <<vars, svars>>

RequestFetchRejects ==
    /\ hpc = "fetch"
    /\ \E error \in (IF aborted THEN {OtherError("fetch", "AbortError", <<>>)}
                     ELSE FetchFailures) : Catch(error)
    /\ UNCHANGED <<call, chunks, aborted, elapsed>>
    /\ UNCHANGED <<vars, svars>>

\* response.json().catch(() => ({})) settles: an error status throws the
\* error of parseApiError into the catch block; otherwise upload reports
\* its progress and the call resolves with the data
BodySettles ==
    /\ hpc = "json"
    /\ LET data == IF hresponse.isJson THEN hresponse.json ELSE EmptyBody
           requestId == OrElse(hresponse.requestId, Undefined)
       IN  IF ~hresponse.ok
           THEN Catch(parseApiError(hresponse.status, data, requestId))
           ELSE IF onProgress = "throws"
                THEN Catch(OtherError("onProgress", "Error", <<"b", "o", "o", "m">>))
                ELSE /\ settled' = [Unsettled EXCEPT !.kind = "resolved", !.via = "return"]
                     /\ hpc' = "settled"
                     /\ UNCHANGED timer
    /\ UNCHANGED <<call, chunks, aborted, elapsed>>
    /\ UNCHANGED <<vars, svars>>

HttpNext ==
    \/ TimeoutElapses
    \/ FileRead
    \/ FileReadRejects
    \/ RequestFetchResolves
    \/ RequestFetchRejects
    \/ BodySettles

HttpSpec == HttpInit /\ [][HttpNext]_allvars

----------------------------------------------------------------------------
(* Properties of watchProgress                                              *)

\* the bytes that the reads have delivered
Received == SubSeq(stream, 1, sent)

\* the complete lines of a byte sequence decoded as a whole
CompleteLines(bytes) == Front(split(DecodeBytes(bytes).text, "\n"))

\* the values of the lines that start with "data: " and parse, in order
RECURSIVE ParsedData(_)
ParsedData(ls) ==
    IF ls = <<>> THEN <<>>
    ELSE (IF Yields(Head(ls)) THEN <<JSONparseData(slice(Head(ls), 6)).value>> ELSE <<>>)
         \o ParsedData(Tail(ls))

\* a sequence of values up to and with its first terminal event
UpToTerminal(evs) ==
    IF \E i \in 1..Len(evs) : isTerminal(evs[i])
    THEN SubSeq(evs, 1, CHOOSE i \in 1..Len(evs) :
                            isTerminal(evs[i]) /\ \A j \in 1..(i - 1) : ~isTerminal(evs[j]))
    ELSE evs

\* the events of a byte sequence, whatever the chunks it arrived in
EventsOf(bytes) == UpToTerminal(ParsedData(CompleteLines(bytes)))

IsPrefix(a, b) == Len(a) <= Len(b) /\ a = SubSeq(b, 1, Len(a))

\* the generator has looked at every line it has received
Drained ==
    \/ gen = "read"
    \/ gen = "completed" /\ outcome.via \in {"done", "terminal", "read"}

\* C12: the events yielded depend only on the bytes received, not on the
\* chunks they came in: with no error thrown into the generator, what has
\* been yielded is a prefix of the events of the bytes received so far, each
\* once and in the order of the lines, and is all of them whenever the
\* generator has looked at every line received.
C12_ChunkingIndependent ==
    (gen # "none" /\ ~thrown) =>
        /\ IsPrefix(yielded, EventsOf(Received))
        /\ Drained => yielded = EventsOf(Received)

\* a stream of two events, one holding a two-byte character, has arrived one
\* byte a read and both events were yielded
C12_Witness ==
    /\ stream = encode(StreamText(<<PendingLine, ProcessingLine>>, <<>>))
    /\ gen = "completed" /\ outcome.via = "done"
    /\ reads = Len(stream) + 1
    /\ yielded = <<ProgressObject(Pending, <<"U+00E9">>), ProgressObject(Processing, Undefined)>>

RECURSIVE WellFormedData(_)
WellFormedData(ls) ==
    IF ls = <<>> THEN <<>>
    ELSE LET carried == {v \in DataValues : DataLine(v) = Head(ls)}
         IN  (IF carried = {} THEN <<>> ELSE <<CHOOSE v \in carried : TRUE>>)
             \o WellFormedData(Tail(ls))

\* a line that starts with "data: " and whose rest is not a JSON text
MalformedData(line) ==
    startsWith(line, DataPrefix) /\ \A v \in DataValues : DataLine(v) # line

\* C14: a data: line that is not valid JSON is dropped silently.  The
\* generator never ends with a parse error, and (nothing being thrown into
\* it) what it has yielded is what the well-formed data: lines received
\* carry, in their order, up to the first terminal event: a malformed line
\* contributes nothing and the lines after it are still yielded.
C14_MalformedDropped ==
    /\ outcome.kind = "throw" =>
          outcome.name \in {"NetworkError", "TypeError", "AbortError", "ConsumerError"}
    /\ (gen # "none" /\ ~thrown) =>
          LET expected == UpToTerminal(WellFormedData(CompleteLines(Received)))
          IN  /\ IsPrefix(yielded, expected)
              /\ Drained => yielded = expected

\* a stream whose first line is malformed and whose second is an event, the
\* two having come in different chunks, has ended with that event yielded
C14_Witness ==
    /\ stream = encode(StreamText(<<MalformedLine, ProcessingLine>>, <<>>))
    /\ MalformedData(MalformedLine)
    /\ gen = "completed" /\ outcome.via = "done"
    /\ reads > 2
    /\ yielded = <<ProgressObject(Processing, Undefined)>>

\* C15: every value yielded is a well-formed ProgressEvent, an object whose
\* stage is one of pending, processing, completed, failed, timeout; a data:
\* line that decodes to anything else is never yielded.
C15_YieldsOnlyProgressEvents ==
    \A i \in 1..Len(yielded) :
        yielded[i].type = "object" /\ yielded[i].stage \in ProgressStages

\* C16: the reader lock, once taken, is released on every path by which the
\* generator ends.  The lock is held exactly from getReader() until the
\* generator ends: it is held while a read is awaited and at every yield, no
\* ended generator holds it, and the step that ends a generator holding the
\* lock (end of data, terminal event, rejected read, abort, return() of the
\* consumer) releases it.
C16_LockReleased ==
    /\ [](gen = "completed" => ~locked)
    /\ [](gen \in {"read", "suspendedYield"} => locked)
    /\ [][(locked /\ gen' = "completed") => ~locked']_allvars

\* the consumer has left at a yield, after the lock was taken
C16_Witness ==
    /\ gen = "completed" /\ outcome.via = "return()"
    /\ reads > 0 /\ yielded # <<>>
    /\ ~locked

\* ... and the other ways out of the loop
C16_WitnessAbort ==
    /\ gen = "completed" /\ outcome.via = "read" /\ outcome.name = "AbortError"
    /\ signal /\ yielded # <<>> /\ ~locked

\* C17: cancellation is checked at each suspension point.  Once the caller's
\* AbortSignal has fired, no step of the generator yields another event,
\* the events of lines already received in the current chunk included.
C17_NoEventAfterAbort ==
    [][signal => yielded' = yielded]_allvars

\* the open has failed: a status outside 2xx, or no body
FailedOpen == ~response.ok \/ response.body = "null"

\* C18: a failed open never streams.  For a response with a status outside
\* 2xx, or a 2xx response without a body, no reader lock is ever taken, no
\* read is issued and no event is yielded; the first pull, once the response
\* has arrived, is answered by a NetworkError.
C18_FailedOpenNeverStreams ==
    (gen # "none" /\ FailedOpen) =>
        /\ ~locked /\ reads = 0 /\ yielded = <<>>
        /\ gen \notin {"read", "suspendedYield"}
        /\ (gen = "completed" /\ requests = 1 /\ outcome.via # "fetch") =>
              /\ outcome.kind = "throw" /\ outcome.name = "NetworkError"
              /\ late = 0 => answer = "throw"

\* a 404 with an error body has been answered
C18_Witness ==
    /\ gen = "completed" /\ late = 0 /\ answer = "throw"
    /\ outcome.name = "NetworkError"
    /\ response.status = 404 /\ outcome.message = response.json.error

\* C19: when the transport signals the end of the data before a terminal
\* event, the generator completes normally, without raising, having yielded
\* every event of the complete lines received; and when the consumer goes on
\* pulling and every read settles, the stream being finite, the generator
\* terminates.
C19_EndOfDataCompletes ==
    /\ [][(gen = "read" /\ ~signal /\ sent = Len(stream) /\ gen' = "completed"
              /\ outcome'.name # "TypeError") =>
             /\ outcome'.kind = "return"
             /\ answer' = "done"
             /\ ~locked'
             /\ yielded' = yielded
             /\ ~thrown => yielded = UpToTerminal(WellFormedData(CompleteLines(stream)))
             /\ ~thrown => \A i \in 1..Len(yielded) : ~isTerminal(yielded[i])]_allvars
    /\ <>(gen = "completed")

\* a body of one event, no terminal one, and an unfinished line has ended
\* and the generator has returned with the event yielded
C19_Witness ==
    /\ stream = encode(StreamText(<<ProcessingLine>>, MalformedLine))
    /\ gen = "completed" /\ outcome.kind = "return" /\ outcome.via = "done"
    /\ sent = Len(stream)
    /\ yielded = <<ProgressObject(Processing, Undefined)>>

\* the states of the reader: before the first pull, OPENING (the request and
\* the reading of an error body), STREAMING (a read awaited, or suspended at
\* a yield), and ended (DONE, FAILED or CANCELLED)
Phase(g) ==
    CASE g = "suspendedStart" -> 0
      [] g \in {"fetch", "json"} -> 1
      [] g \in {"read", "suspendedYield"} -> 2
      [] OTHER -> 3

\* C20: the generator is single-pass and its end states are absorbing.  It
\* moves from OPENING to STREAMING to an end state and never back, it makes
\* one request at most, and once it has ended every further pull is answered
\* by end-of-sequence with no new request, no read, no event and no change of
\* how it ended.
C20_SinglePass ==
    /\ [][Phase(gen') >= Phase(gen)]_allvars
    /\ [](requests <= 1)
    /\ [](Phase(gen) = 2 => response.ok /\ response.body # "null")
    /\ [][gen = "completed" =>
             /\ gen' = "completed"
             /\ answer' = "done"
             /\ requests' = requests /\ reads' = reads /\ yielded' = yielded
             /\ outcome' = outcome /\ ~locked']_allvars

\* a generator that streamed and ended by an error has been pulled twice more
C20_Witness ==
    /\ gen = "completed" /\ outcome.kind = "throw"
    /\ yielded # <<>>
    /\ late > 1 /\ answer = "done"

----------------------------------------------------------------------------
(* Properties of both components                                            *)

\* C21: neither component retries.  A watchProgress call that has been
\* pulled has issued exactly one request; the step in which a fetch, the
\* reading of an error response or a read fails ends the generator and
\* answers the pending pull with the error, with no further request or read,
\* then or later.  A verifyWebhookSignature call computes at most one digest,
\* and the step in which a check fails settles the call with no digest after
\* it.
C21_NoRetry ==
    /\ [](requests <= 1)
    /\ [](gen \in {"fetch", "json", "read", "suspendedYield"} => requests = 1)
    /\ [][(gen \in {"fetch", "json", "read"} /\ outcome'.kind = "throw") =>
             /\ gen' = "completed" /\ answer' = "throw"
             /\ requests' = requests /\ reads' = reads]_allvars
    /\ [][(gen = "completed" /\ outcome.kind = "throw") =>
             (requests' = requests /\ reads' = reads)]_allvars
    /\ [](digests <= 1)
    /\ [][(result = "pending" /\ result' # "pending") =>
             (pc' \in {"done", "parse"} /\ digests' = digests)]_allvars
    /\ [][result \notin {"pending", "none", "true"} =>
             (digests' = digests /\ result' = result)]_allvars

\* a read of a stream under way has been rejected and the pull answered by
\* the error, after one request
C21_Witness ==
    /\ gen = "completed" /\ outcome.via = "read" /\ outcome.name = "TypeError"
    /\ answer = "throw" /\ late = 0
    /\ requests = 1 /\ reads > 1

\* a call has failed at the comparison, after its one digest
C21_WitnessDigest ==
    /\ pc = "done" /\ result = Mismatch /\ digests = 1

----------------------------------------------------------------------------
(* Further properties of watchProgress                                      *)

\* the lines of the model that do not begin with "data: "
OtherLines == {BlankLine, CommentLine, EventFieldLine, IdLine, NoSpaceLine}

\* a sequence of lines without those of OtherLines
RECURSIVE WithoutOthers(_)
WithoutOthers(ls) ==
    IF ls = <<>> THEN <<>>
    ELSE (IF Head(ls) \in OtherLines THEN <<>> ELSE <<Head(ls)>>)
         \o WithoutOthers(Tail(ls))

\* C22: only data: lines (lines beginning with "data: ") produce events.
\* The generator never ends by an error of its own making in the loop, and
\* (nothing being thrown into it) what it yields is what the stream without
\* its blank, comment, event:, id: and other lines would yield: every line
\* left begins with "data: ", and each that carries a JSON text yields its
\* value once, in order, up to the first terminal event.
C22_OnlyDataLines ==
    /\ outcome.kind = "throw" => outcome.via \in {"fetch", "status", "body", "read", "throw()"}
    /\ (gen # "none" /\ ~thrown) =>
          LET kept == WithoutOthers(CompleteLines(Received))
              expected == UpToTerminal(WellFormedData(kept))
          IN  /\ \A i \in 1..Len(kept) : startsWith(kept[i], DataPrefix)
              /\ IsPrefix(yielded, expected)
              /\ Drained => yielded = expected

\* a stream of a data: line without the space, a comment, an event: line, an
\* id: line and one event has ended with that one event yielded
C22_Witness ==
    /\ stream = encode(StreamText(<<NoSpaceLine, CommentLine, EventFieldLine, IdLine,
                                    PendingLine>>, <<>>))
    /\ gen = "completed" /\ outcome.via = "done"
    /\ yielded = <<ProgressObject(Pending, <<"U+00E9">>)>>

\* C23: the NetworkError raised for a response outside 2xx carries the
\* upstream status and code: its code is the code field of the response
\* body when there is one, and its status is the HTTP status of the response.
C23_CarriesStatusAndCode ==
    (gen = "completed" /\ outcome.via = "status") =>
        /\ (response.isJson /\ ~signal /\ response.json.code # Undefined) =>
              outcome.code = response.json.code
        /\ outcome.statusCode = NatToString(response.status)

----------------------------------------------------------------------------
(* Properties of parseApiError and HttpClient                               *)

\* the error class the specification names for a status
ClassOfStatus(status) ==
    IF status = 401 THEN "AuthenticationError"
    ELSE IF status = 403 THEN "AuthorizationError"
    ELSE IF status = 404 THEN "NotFoundError"
    ELSE IF status = 409 THEN "ConflictError"
    ELSE IF status = 429 THEN "RateLimitError"
    ELSE IF status = 400 \/ status = 422 THEN "ValidationError"
    ELSE IF status >= 500 THEN "ServerError"
    ELSE "PlayVideoError"

\* C24: when the body of a response whose status is not 2xx has been read,
\* the call rejects in that step with one error, whose class is the one the
\* status maps to (401, 403, 404, 409, 429, 400 or 422, 500 and above, any
\* other), which carries the request id of the response header and the
\* status, and which the catch block has not turned into a NetworkError or a
\* TimeoutError.
C24_StatusMapping ==
    [][(hpc = "json" /\ ~hresponse.ok /\ hpc' = "settled") =>
          /\ settled'.kind = "rejected"
          /\ settled'.via = "api"
          /\ settled'.name = ClassOfStatus(hresponse.status)
          /\ settled'.name \notin {"NetworkError", "TimeoutError"}
          /\ settled'.requestId = OrElse(hresponse.requestId, Undefined)
          /\ settled'.statusCode = StatusCode(hresponse.status)
          /\ settled'.code = (IF hresponse.isJson THEN hresponse.json.code ELSE Undefined)]_allvars

C24_Witness ==
    /\ hpc = "settled"
    /\ hresponse.status = 422
    /\ settled.name = "ValidationError"
    /\ settled.requestId = <<"r", "e", "q", "1", "2", "3">>
    /\ settled.code = <<"n", "o", "t", "_", "f", "o", "u", "n", "d">>

\* C28: a settled call has no armed timer, whichever way it settled, and
\* the controller of a settled call is never aborted; a call whose timer
\* fired while fetch was pending rejects with a TimeoutError.
C28_TimerDisarmed ==
    /\ [](hpc = "settled" => timer # "armed")
    /\ [][hpc = "settled" => aborted' = aborted]_allvars
    /\ [][(hpc = "fetch" /\ aborted /\ hpc' = "settled") =>
             (settled'.kind = "rejected" /\ settled'.name = "TimeoutError")]_allvars

C28_Witness ==
    /\ hpc = "settled"
    /\ timer = "fired"
    /\ settled.name = "TimeoutError"

\* a fetch that rejected without an abort has disarmed the timer too
C28_WitnessRejectedFetch ==
    /\ hpc = "settled"
    /\ timer = "cleared"
    /\ elapsed
    /\ ~aborted
    /\ settled.name = "NetworkError"

\* C29: a call of request that settles after its timeout has elapsed
\* rejects with a TimeoutError, wherever the call was waiting when the
\* timeout elapsed.
C29_TimeoutBoundsCall ==
    [][(method = "request" /\ elapsed /\ hpc # "settled" /\ hpc' = "settled") =>
          (settled'.kind = "rejected" /\ settled'.name = "TimeoutError")]_allvars

----------------------------------------------------------------------------
(* Properties of the signature format check and of secureCompare            *)

\* the number of "=" in a signature header
Separators(sig) == Cardinality({i \in DOMAIN sig : sig[i] = "="})

\* a header that is not the token sha256, one "=", and a digest without "="
NotSchemeForm(sig) ==
    \/ Separators(sig) # 1
    \/ Len(sig) < 7
    \/ SubSeq(sig, 1, 7) # sha256 \o <<"=">>

\* C25: a call whose signature is not of the form sha256=<digest> (another
\* scheme token, no "=", more than one "=") never computes a digest and never
\* returns true, and a call that has raised the invalid-format error has
\* computed no digest and has not prepared the signed payload.
C25_FormatBeforeDigest ==
    /\ (entry # "none" /\ NotSchemeForm(signature)) =>
           (digests = 0 /\ result # "true" /\ pc \notin {"hmac", "compare", "parse"})
    /\ result = InvalidFormat =>
           (digests = 0 /\ pc = "done" /\ NotSchemeForm(signature))

C25_Witness ==
    /\ result = InvalidFormat
    /\ Separators(signature) = 2
    /\ SubSeq(signature, 1, 7) = sha256 \o <<"=">>

C25_WitnessNoSeparator ==
    /\ result = InvalidFormat
    /\ Separators(signature) = 0

C25_WitnessScheme ==
    /\ result = InvalidFormat
    /\ Separators(signature) = 1
    /\ SubSeq(signature, 1, 3) = <<"m", "d", "5">>

\* C26: once the comparison has run, the call has returned true exactly
\* when the digest of the header equals the computed digest; digests of
\* different length are a mismatch found without a compare step; and digests
\* of the same length n have taken n compare steps, whatever their contents
\* and wherever they first differ.
C26_LengthFirstThenAllSteps ==
    (digests = 1 /\ pc \in {"done", "parse"}) =>
        /\ (result = "true") <=> (expectedSig = computedSig)
        /\ result # "true" => result = Mismatch
        /\ Len(expectedSig) # Len(computedSig) => (result = Mismatch /\ steps = 0)
        /\ Len(expectedSig) = Len(computedSig) => steps = Len(computedSig)

\* digests that differ in their first character: every character is compared
C26_Witness ==
    /\ result = Mismatch
    /\ Len(expectedSig) = Len(computedSig)
    /\ expectedSig[1] # computedSig[1]
    /\ steps = Len(computedSig)
    /\ steps > 1

\* digests that differ in their last character alone
C26_WitnessLast ==
    /\ result = Mismatch
    /\ Len(expectedSig) = Len(computedSig)
    /\ SubSeq(expectedSig, 1, Len(expectedSig) - 1) = SubSeq(computedSig, 1, Len(computedSig) - 1)
    /\ steps = Len(computedSig)

\* digests of different length
C26_WitnessLength ==
    /\ result = Mismatch
    /\ Len(expectedSig) # Len(computedSig)
    /\ steps = 0
    /\ digests = 1

\* equal digests
C26_WitnessEqual ==
    /\ result = "true"
    /\ steps = Len(computedSig)
    /\ steps > 1

----------------------------------------------------------------------------
(* Properties of the buffer of watchProgress                                *)

\* the text after the last newline of the text decoded from a byte sequence
Unterminated(bytes) == Last(split(DecodeBytes(bytes).text, "\n"))

\* C27: at every suspension point of the generator, an awaited read or a
\* yield, the buffer holds no newline: it is the text received after the last
\* newline, one partial line at most, every complete line having been taken
\* out of it when its chunk was split; and no line kept for the for loop
\* holds a newline either.
C27_OnePartialLine ==
    gen \in {"read", "suspendedYield"} =>
        /\ \A i \in DOMAIN buffer : buffer[i] # "\n"
        /\ buffer = Unterminated(Received)
        /\ \A k \in DOMAIN lines : \A i \in DOMAIN lines[k] : lines[k][i] # "\n"

\* a read is awaited with a partial line in the buffer, complete lines having
\* come before it
C27_Witness ==
    /\ gen = "read"
    /\ buffer # <<>>
    /\ sent < Len(stream)
    /\ Len(CompleteLines(Received)) >= 2
    /\ Len(yielded) >= 1

\* suspended at a yield with lines of the same chunk still to look at and a
\* partial line in the buffer
C27_WitnessYield ==
    /\ gen = "suspendedYield"
    /\ buffer # <<>>
    /\ lines # <<>>

\* C30: every event yielded is the value of a newline-terminated line of the
\* bytes received, in their order; and when the body ends, the generator
\* returns with the unterminated rest still in the buffer, never parsed and
\* never yielded, whatever it holds.
C30_UnterminatedDiscarded ==
    /\ gen # "none" => IsPrefix(yielded, ParsedData(CompleteLines(Received)))
    /\ (gen = "completed" /\ outcome.via = "done") =>
           /\ sent = Len(stream)
           /\ buffer = Unterminated(stream)
           /\ Len(yielded) <= Len(ParsedData(CompleteLines(stream)))

\* the body ended with a complete terminal event that lacks its newline: the
\* generator returned without yielding it
C30_Witness ==
    /\ gen = "completed" /\ outcome.via = "done"
    /\ Yields(buffer)
    /\ isTerminal(JSONparseData(slice(buffer, 6)).value)
    /\ yielded = <<ProgressObject(Pending, <<"U+00E9">>)>>

====
